---- MODULE Spec2Model ----
(***************************************************************************)
(* Model of src/generation/generate_answers.py: the Prompter class, the    *)
(* evaluate wrapper and the main pipeline.                                 *)
(*                                                                         *)
(* A Python str is a sequence of characters (one-character TLA+ strings).  *)
(* Python's None is the sentinel None where a str is expected and NoneList *)
(* where a list is expected.  The two float hyperparameters are kept as    *)
(* hundredths (0.75 is 75, 0.1 is 10).  The external tokenizer and model   *)
(* are the environment: the decoded text of a generate call is chosen      *)
(* nondeterministically.                                                   *)
(***************************************************************************)
EXTENDS Integers, Sequences, FiniteSets, TLC

VARIABLES
    args,          \* the parsed Arguments (Tap)
    fs,            \* template files that exist on disk
    pc,            \* position of the running code
    error,         \* the exception that ended the run, "" when none
    prompter,      \* prompter.template, NoTemplate before Prompter()
    file_idx,      \* index in args.input_path of the file of the current iteration
    instructions,  \* main's local `instructions`
    inputs,        \* main's local `inputs`
    outputs,       \* main's local `outputs`
    pairs,         \* what is left of zip(instructions, inputs)
    disk,          \* output files: basename -> written JSON object, NoFile when absent
    trace,         \* history: the files opened, generate calls and writes, in order
    last           \* the last call made on a Prompter (unit level) and what it returned

vars == <<args, fs, pc, error, prompter, file_idx, instructions, inputs,
          outputs, pairs, disk, trace, last>>

(***************************************************************************)
(* Bounds                                                                  *)
(***************************************************************************)
MaxFiles == 2
MaxInstr == 2

(***************************************************************************)
(* Values                                                                  *)
(***************************************************************************)
None == <<"None">>
NoneList == << <<"NoneList">> >>
NoTemplate == [prompt_input |-> <<>>, prompt_no_input |-> <<>>, response_split |-> <<>>]
NoFile == [written |-> FALSE]

Whitespace == {" ", "\n"}

\* Python truthiness of an Optional[str]: None and '' are falsy.
Truthy(s) == s # None /\ s # <<>>

(***************************************************************************)
(* str.format, str.split, str.strip                                        *)
(***************************************************************************)
RECURSIVE Format(_, _)
\* tpl.format(**kw): every replacement field is replaced by its keyword.
Format(tpl, kw) ==
    IF tpl = <<>> THEN <<>>
    ELSE LET h == Head(tpl)
         IN  (IF h = "{instruction}" THEN kw.instruction
              ELSE IF h = "{input}" THEN kw.input
              ELSE <<h>>) \o Format(Tail(tpl), kw)

\* The least index at which sep occurs in s, 0 when it does not occur.
Find(s, sep) ==
    LET hits == {i \in 1..(Len(s) - Len(sep) + 1) : SubSeq(s, i, i + Len(sep) - 1) = sep}
    IN  IF hits = {} THEN 0 ELSE CHOOSE i \in hits : \A j \in hits : i <= j

RECURSIVE Split(_, _)
\* s.split(sep) for a non-empty sep: the pieces between the occurrences of sep,
\* scanned from the left.
Split(s, sep) ==
    LET i == Find(s, sep)
    IN  IF i = 0 THEN <<s>>
        ELSE <<SubSeq(s, 1, i - 1)>> \o Split(SubSeq(s, i + Len(sep), Len(s)), sep)

RECURSIVE LStrip(_)
LStrip(s) == IF s # <<>> /\ Head(s) \in Whitespace THEN LStrip(Tail(s)) ELSE s

RECURSIVE RStrip(_)
RStrip(s) ==
    IF s # <<>> /\ s[Len(s)] \in Whitespace THEN RStrip(SubSeq(s, 1, Len(s) - 1)) ELSE s

Strip(s) == RStrip(LStrip(s))

(***************************************************************************)
(* Template files.  A template is the record json.load returns; the text   *)
(* of prompt_input and prompt_no_input is a sequence of characters and     *)
(* replacement fields.                                                     *)
(***************************************************************************)
TemplateFiles == {"alpaca", "t.json"}
TemplateNames == {"", "t.json"}

FileTemplate(file_name) ==
    IF file_name = "alpaca"
    THEN [prompt_input    |-> <<"{instruction}", " ", "{input}", "#">>,
          prompt_no_input |-> <<"{instruction}", "#">>,
          response_split  |-> <<"#">>]
    ELSE [prompt_input    |-> <<"I", "{instruction}", "N", "{input}", "#", "R">>,
          prompt_no_input |-> <<"I", "{instruction}", "#", "R">>,
          response_split  |-> <<"#", "R">>]

(***************************************************************************)
(* class Prompter                                                          *)
(***************************************************************************)
\* PrompterInit without the osp.exists check.
PrompterInit_NoExistsCheck(template_name, files) ==
    LET file_name == IF template_name = "" THEN "alpaca" ELSE template_name
    IN  [raised |-> "", template |-> FileTemplate(file_name)]

\* Prompter.__init__(template_name) with the files `files` on disk.
PrompterInit(template_name, files) ==
    LET file_name == IF template_name = "" THEN "alpaca" ELSE template_name
    IN  IF file_name \notin files
        THEN [raised |-> "ValueError: Can't read", template |-> NoTemplate]
        ELSE [raised |-> "", template |-> FileTemplate(file_name)]

\* generate_prompt testing `input is not None` in place of `input`.
generate_prompt_IsNotNone(template, instruction, input, label) ==
    LET res == IF input # None
               THEN Format(template.prompt_input,
                           [instruction |-> instruction, input |-> input])
               ELSE Format(template.prompt_no_input,
                           [instruction |-> instruction, input |-> None])
    IN  IF Truthy(label) THEN res \o label ELSE res

\* Prompter.generate_prompt(instruction, input, label).  The templates read
\* here hold no {input} field in prompt_no_input, so the format call without
\* the input keyword finds every field it needs.
generate_prompt(template, instruction, input, label) ==
    LET res == IF Truthy(input)
               THEN Format(template.prompt_input,
                           [instruction |-> instruction, input |-> input])
               ELSE Format(template.prompt_no_input,
                           [instruction |-> instruction, input |-> None])
    IN  IF Truthy(label) THEN res \o label ELSE res

\* Prompter.get_response(output)
get_response(template, output) ==
    LET parts == Split(output, template.response_split)
    IN  IF Len(parts) < 2
        THEN [raised |-> "IndexError", value |-> <<>>]
        ELSE [raised |-> "", value |-> Strip(parts[2])]

(***************************************************************************)
(* class Arguments and the keyword defaults of evaluate                    *)
(***************************************************************************)
\* The defaults of the generation flags of Arguments.
ArgDefaults ==
    [max_new_tokens |-> 256, num_beams |-> 4, top_k |-> 40, top_p |-> 75,
     temperature |-> 10]

\* The defaults of the keyword parameters of evaluate.
EvaluateDefaults ==
    [input |-> None, temperature |-> 10, top_p |-> 75, top_k |-> 40,
     num_beams |-> 4, max_new_tokens |-> 128]

\* The values of the five generation flags a run is started with.
HyperChoices ==
    {ArgDefaults,
     [ArgDefaults EXCEPT !.max_new_tokens = 128],
     [max_new_tokens |-> 64, num_beams |-> 1, top_k |-> 50, top_p |-> 90,
      temperature |-> 70]}

Paths ==
    {[dir |-> "d1", base |-> "a.json"],
     [dir |-> "d2", base |-> "a.json"],
     [dir |-> "d1", base |-> "b.json"]}

\* os.path.basename
basename(path) == path.base

Basenames == {basename(p) : p \in Paths}

\* The lists of input files given on the command line: at most MaxFiles
\* different paths.
PathLists ==
    {l \in UNION {[1..n -> Paths] : n \in 0..MaxFiles} :
        \A i \in DOMAIN l, j \in DOMAIN l : l[i] = l[j] => i = j}

ArgumentSets ==
    {[base_model |-> "m", output_path |-> "out", prompt_template_path |-> t,
      input_path |-> l, max_new_tokens |-> h.max_new_tokens,
      num_beams |-> h.num_beams, top_k |-> h.top_k, top_p |-> h.top_p,
      temperature |-> h.temperature] :
        t \in TemplateNames, l \in PathLists, h \in HyperChoices}

(***************************************************************************)
(* Input files: what json.load can return for an input file                *)
(***************************************************************************)
Instruction(n) == IF n % 2 = 1 THEN <<"a">> ELSE <<"b">>
Input(n) == IF n % 3 = 1 THEN <<"x">> ELSE IF n % 3 = 2 THEN <<>> ELSE None

InstructionArrays == {[i \in 1..n |-> Instruction(i)] : n \in 0..MaxInstr}
InputArrays == {[i \in 1..n |-> Input(i)] : n \in 0..MaxInstr}

FileContents ==
    [instructions : InstructionArrays \cup {NoneList},
     inputs : InputArrays \cup {NoneList}]

(***************************************************************************)
(* The external model: the texts tokenizer.decode may return for a prompt  *)
(***************************************************************************)
\* The model's answer depends on the prompt: here it repeats the characters of
\* the instruction and input it finds in the prompt.
Payload(prompt) == SelectSeq(prompt, LAMBDA c : c \in {"a", "b", "x"})

Continuations(prompt) == {<<" ", "r">> \o Payload(prompt) \o <<" ">>}

\* The decoded sequence is the prompt followed by the continuation, or a text
\* that lacks the separator.
DecodedOutputs(prompt) == {prompt \o c : c \in Continuations(prompt)} \cup {<<"r">>}

(***************************************************************************)
(* evaluate and the steps of main                                          *)
(***************************************************************************)
\* evaluate(...): the model.generate call it makes and what it returns, when
\* tokenizer.decode returns `decoded`.
evaluate(template, instruction, input, temperature, top_p, top_k, num_beams, max_new_tokens, decoded) ==
    [prompt |-> generate_prompt(template, instruction, input, None),
     generation_config |-> [temperature |-> temperature, top_p |-> top_p,
                            top_k |-> top_k, num_beams |-> num_beams],
     max_new_tokens |-> max_new_tokens,
     response |-> get_response(template, decoded)]

\* Validate without the comparison of the two lengths.
Validate_NoLengthCheck(instrs, inps) ==
    IF instrs = NoneList
    THEN [raised |-> "ValueError: No instructions provided", inputs |-> inps]
    ELSE IF inps = NoneList \/ Len(inps) = 0
    THEN [raised |-> "", inputs |-> [i \in 1..Len(instrs) |-> None]]
    ELSE [raised |-> "", inputs |-> inps]

\* Validate expanding to [None] * len(inputs) in place of len(instructions).
Validate_ExpandByInputs(instrs, inps) ==
    IF instrs = NoneList
    THEN [raised |-> "ValueError: No instructions provided", inputs |-> inps]
    ELSE IF inps = NoneList \/ Len(inps) = 0
    THEN [raised |-> "", inputs |-> <<>>]
    ELSE IF Len(instrs) # Len(inps)
    THEN [raised |-> "ValueError: Number of instructions does not match", inputs |-> inps]
    ELSE [raised |-> "", inputs |-> inps]

\* Validate testing the inputs before the instructions: len(None) raises.
Validate_InputsFirst(instrs, inps) ==
    IF inps = NoneList \/ Len(inps) = 0
    THEN IF instrs = NoneList
         THEN [raised |-> "TypeError", inputs |-> inps]
         ELSE [raised |-> "", inputs |-> [i \in 1..Len(instrs) |-> None]]
    ELSE IF instrs = NoneList
    THEN [raised |-> "ValueError: No instructions provided", inputs |-> inps]
    ELSE IF Len(instrs) # Len(inps)
    THEN [raised |-> "ValueError: Number of instructions does not match", inputs |-> inps]
    ELSE [raised |-> "", inputs |-> inps]

\* The validation of main: the error raised, or the inputs the loop uses.
Validate(instrs, inps) ==
    IF instrs = NoneList
    THEN [raised |-> "ValueError: No instructions provided", inputs |-> inps]
    ELSE IF inps = NoneList \/ Len(inps) = 0
    THEN [raised |-> "", inputs |-> [i \in 1..Len(instrs) |-> None]]
    ELSE IF Len(instrs) # Len(inps)
    THEN [raised |-> "ValueError: Number of instructions does not match", inputs |-> inps]
    ELSE [raised |-> "", inputs |-> inps]

\* zip stopping one pair early.
ZipPairs_DropLast(xs, ys) ==
    LET n == IF Len(xs) <= Len(ys) THEN Len(xs) ELSE Len(ys)
    IN  [i \in 1..(n - 1) |-> <<xs[i], ys[i]>>]

\* zip(instructions, inputs)
ZipPairs(xs, ys) ==
    LET n == IF Len(xs) <= Len(ys) THEN Len(xs) ELSE Len(ys)
    IN  [i \in 1..n |-> <<xs[i], ys[i]>>]

\* The object json.dump writes.
OutputJson(a, inps, instrs, outs) ==
    [written |-> TRUE,
     parameters |-> [model |-> a.base_model, prompt_template |-> a.prompt_template_path],
     inputs |-> inps, instructions |-> instrs, outputs |-> outs]

NoCall == [op |-> "none"]

Init ==
    /\ args \in ArgumentSets
    /\ fs \in SUBSET TemplateFiles
    /\ pc = "start"
    /\ error = ""
    /\ prompter = NoTemplate
    /\ file_idx = 0
    /\ instructions = <<>>
    /\ inputs = <<>>
    /\ outputs = <<>>
    /\ pairs = <<>>
    /\ disk = [b \in Basenames |-> NoFile]
    /\ trace = <<>>
    /\ last = NoCall

\* prompter = Prompter(args.prompt_template_path)
LoadPrompter ==
    /\ pc = "start"
    /\ LET r == PrompterInit(args.prompt_template_path, fs)
       IN  IF r.raised # ""
           THEN /\ pc' = "raised"
                /\ error' = r.raised
                /\ UNCHANGED prompter
           ELSE /\ pc' = "for_file"
                /\ prompter' = r.template
                /\ UNCHANGED error
    /\ UNCHANGED <<args, fs, file_idx, instructions, inputs, outputs, pairs, disk,
                   trace, last>>

\* The head of one iteration of `for input_path in input_path_list`: the file
\* is opened and loaded, and its instructions and inputs are validated.
OpenInput ==
    /\ pc = "for_file"
    /\ file_idx < Len(args.input_path)
    /\ \E input_data \in FileContents :
          LET k == file_idx + 1
              v == Validate(input_data.instructions, input_data.inputs)
          IN  /\ file_idx' = k
              /\ trace' = Append(trace, [ev |-> "open", k |-> k,
                                         path |-> args.input_path[k],
                                         data |-> input_data])
              /\ IF v.raised # ""
                 THEN /\ pc' = "raised"
                      /\ error' = v.raised
                      /\ UNCHANGED <<instructions, inputs, outputs, pairs>>
                 ELSE /\ pc' = "for_pair"
                      /\ instructions' = input_data.instructions
                      /\ inputs' = v.inputs
                      /\ outputs' = <<>>
                      /\ pairs' = ZipPairs(input_data.instructions, v.inputs)
                      /\ UNCHANGED error
    /\ UNCHANGED <<args, fs, prompter, disk, last>>

\* One iteration of `for instruction, input in zip(instructions, inputs)`.
Evaluate ==
    /\ pc = "for_pair"
    /\ pairs # <<>>
    /\ LET instruction == Head(pairs)[1]
           prompt == generate_prompt(prompter, instruction, EvaluateDefaults.input, None)
       IN  \E decoded \in DecodedOutputs(prompt) :
              LET r == evaluate(prompter, instruction, EvaluateDefaults.input,
                                EvaluateDefaults.temperature, EvaluateDefaults.top_p,
                                EvaluateDefaults.top_k, EvaluateDefaults.num_beams,
                                EvaluateDefaults.max_new_tokens, decoded)
              IN  /\ trace' = Append(trace, [ev |-> "generate", k |-> file_idx,
                                             i |-> Len(instructions) - Len(pairs) + 1,
                                             instruction |-> instruction,
                                             call |-> r, decoded |-> decoded])
                  /\ IF r.response.raised # ""
                     THEN /\ pc' = "raised"
                          /\ error' = r.response.raised
                          /\ UNCHANGED <<outputs, pairs>>
                     ELSE /\ outputs' = Append(outputs, r.response.value)
                          /\ pairs' = Tail(pairs)
                          /\ UNCHANGED <<pc, error>>
    /\ UNCHANGED <<args, fs, prompter, file_idx, instructions, inputs, disk, last>>

\* The tail of the iteration: the outputs are saved under the input's basename.
WriteOutput ==
    /\ pc = "for_pair"
    /\ pairs = <<>>
    /\ LET content == OutputJson(args, inputs, instructions, outputs)
           b == basename(args.input_path[file_idx])
       IN  /\ disk' = [disk EXCEPT ![b] = content]
           /\ trace' = Append(trace, [ev |-> "write", k |-> file_idx, base |-> b,
                                      content |-> content])
    /\ pc' = "for_file"
    /\ UNCHANGED <<args, fs, error, prompter, file_idx, instructions, inputs,
                   outputs, pairs, last>>

\* The list of input files is exhausted: main returns.
Finish ==
    /\ pc = "for_file"
    /\ file_idx = Len(args.input_path)
    /\ pc' = "done"
    /\ UNCHANGED <<args, fs, error, prompter, file_idx, instructions, inputs,
                   outputs, pairs, disk, trace, last>>

Next == LoadPrompter \/ OpenInput \/ Evaluate \/ WriteOutput \/ Finish

Spec == Init /\ [][Next]_vars

(***************************************************************************)
(* The Prompter class on its own: a Prompter is constructed and its        *)
(* methods are called with arbitrary arguments.                            *)
(***************************************************************************)
UnitInstructions == {<<>>, <<"a">>, <<"a", "b">>, <<"{input}">>}
UnitInputs == {None, <<>>, <<"x">>, <<"x", " ">>}
UnitLabels == {None, <<>>, <<"l">>}

Pieces == {<<>>, <<"p">>, <<" ", "r", " ">>, <<"#">>}

\* Texts in which the separator occurs zero, one or two times, or more.
UnitOutputs(sep) ==
    Pieces
      \cup {a \o sep \o b : a \in Pieces, b \in Pieces}
      \cup {a \o sep \o b \o sep \o c : a \in {<<>>, <<"p">>}, b \in Pieces, c \in Pieces}

PInit ==
    /\ args = CHOOSE a \in ArgumentSets : a.input_path = <<>>
    /\ fs \in SUBSET TemplateFiles
    /\ pc = "new"
    /\ error = ""
    /\ prompter = NoTemplate
    /\ file_idx = 0
    /\ instructions = <<>>
    /\ inputs = <<>>
    /\ outputs = <<>>
    /\ pairs = <<>>
    /\ disk = [b \in Basenames |-> NoFile]
    /\ trace = <<>>
    /\ last = NoCall

\* Prompter(template_name)
PConstruct ==
    /\ pc = "new"
    /\ \E template_name \in TemplateNames :
          LET r == PrompterInit(template_name, fs)
          IN  /\ last' = [op |-> "__init__", template_name |-> template_name,
                          raised |-> r.raised]
              /\ IF r.raised # ""
                 THEN /\ pc' = "raised"
                      /\ error' = r.raised
                      /\ UNCHANGED prompter
                 ELSE /\ pc' = "ready"
                      /\ prompter' = r.template
                      /\ UNCHANGED error
    /\ UNCHANGED <<args, fs, file_idx, instructions, inputs, outputs, pairs, disk,
                   trace>>

\* prompter.generate_prompt(instruction, input, label)
PGeneratePrompt ==
    /\ pc = "ready"
    /\ \E instruction \in UnitInstructions, input \in UnitInputs, label \in UnitLabels :
          last' = [op |-> "generate_prompt", instruction |-> instruction,
                   input |-> input, label |-> label,
                   ret |-> generate_prompt(prompter, instruction, input, label)]
    /\ UNCHANGED <<args, fs, pc, error, prompter, file_idx, instructions, inputs,
                   outputs, pairs, disk, trace>>

\* prompter.get_response(output)
PGetResponse ==
    /\ pc = "ready"
    /\ \E output \in UnitOutputs(prompter.response_split) :
          LET r == get_response(prompter, output)
          IN  last' = [op |-> "get_response", output |-> output,
                       raised |-> r.raised, ret |-> r.value]
    /\ UNCHANGED <<args, fs, pc, error, prompter, file_idx, instructions, inputs,
                   outputs, pairs, disk, trace>>

PNext == PConstruct \/ PGeneratePrompt \/ PGetResponse

SpecPrompter == PInit /\ [][PNext]_vars

(***************************************************************************)
(* Properties of the Prompter class (checked under SpecPrompter)           *)
(***************************************************************************)
\* The index of the replacement field `field` in the template text tpl.
FieldAt(tpl, field) == CHOOSE i \in 1..Len(tpl) : tpl[i] = field

\* tpl with the text `instruction` in place of its {instruction} field.
WithInstruction(tpl, instruction) ==
    LET i == FieldAt(tpl, "{instruction}")
    IN  SubSeq(tpl, 1, i - 1) \o instruction \o SubSeq(tpl, i + 1, Len(tpl))

\* tpl with `instruction` and `input` in place of its two fields.
WithInstructionAndInput(tpl, instruction, input) ==
    LET i == FieldAt(tpl, "{instruction}")
        j == FieldAt(tpl, "{input}")
    IN  SubSeq(tpl, 1, i - 1) \o instruction \o SubSeq(tpl, i + 1, j - 1)
          \o input \o SubSeq(tpl, j + 1, Len(tpl))

\* C6: generate_prompt returns the prompt_input template with instruction and
\* input substituted when input is a non-empty string, the prompt_no_input
\* template with instruction substituted when input is None or '', and appends
\* the label exactly when a non-empty label is given.
GeneratePromptSubstitutes ==
    last.op = "generate_prompt" =>
        LET body == IF last.input # None /\ Len(last.input) > 0
                    THEN WithInstructionAndInput(prompter.prompt_input,
                                                 last.instruction, last.input)
                    ELSE WithInstruction(prompter.prompt_no_input, last.instruction)
        IN  last.ret = IF last.label # None /\ Len(last.label) > 0
                       THEN body \o last.label
                       ELSE body

\* C6 happens: generate_prompt was called with a non-empty input and a label.
GeneratePromptWithInputAndLabel ==
    /\ last.op = "generate_prompt"
    /\ last.input = <<"x", " ">>
    /\ last.label = <<"l">>
    /\ last.instruction = <<"a", "b">>

\* C5: for every output that contains the separator, get_response returns all
\* the text after the first occurrence of the separator, stripped, also when
\* the separator occurs again later.
GetResponseAllAfterFirstSeparator ==
    (last.op = "get_response" /\ Find(last.output, prompter.response_split) # 0) =>
        LET sep == prompter.response_split
            i == Find(last.output, sep)
        IN  /\ last.raised = ""
            /\ last.ret = Strip(SubSeq(last.output, i + Len(sep), Len(last.output)))

\* C10: Prompter('') completes with a loaded template instead of raising.
ConstructWithEmptyNameCompletes ==
    (last.op = "__init__" /\ last.template_name = "") =>
        /\ pc = "ready"
        /\ last.raised = ""
        /\ prompter # NoTemplate

(***************************************************************************)
(* Properties of main (checked under Spec)                                 *)
(***************************************************************************)
OpenEvents == {t \in DOMAIN trace : trace[t].ev = "open"}
GenerateEvents == {t \in DOMAIN trace : trace[t].ev = "generate"}
WriteEvents == {t \in DOMAIN trace : trace[t].ev = "write"}

GenerateOf(k) == {t \in GenerateEvents : trace[t].k = k}
WriteOf(k) == {t \in WriteEvents : trace[t].k = k}

\* The content file k was loaded with.
DataOf(k) == trace[CHOOSE t \in OpenEvents : trace[t].k = k].data

\* What the file at basename b holds after the writes of the trace.
LastWritten(b) ==
    LET ws == {t \in WriteEvents : trace[t].base = b}
    IN  IF ws = {} THEN NoFile
        ELSE trace[CHOOSE t \in ws : \A u \in ws : u <= t].content

Nulls(n) == [i \in 1..n |-> None]

Mismatched(d) ==
    /\ d.instructions # NoneList
    /\ d.inputs # NoneList
    /\ Len(d.inputs) > 0
    /\ Len(d.inputs) # Len(d.instructions)

\* C1: an input file whose non-empty inputs differ in length from its
\* instructions raises the mismatch error before any generate call for it; no
\* output file is written for it, no later input file is processed, and the
\* output files of the earlier input files stay as written.
MismatchTerminatesRun ==
    \A t \in OpenEvents :
        Mismatched(trace[t].data) =>
            /\ pc = "raised"
            /\ error = "ValueError: Number of instructions does not match"
            /\ t = Len(trace)
            /\ GenerateOf(trace[t].k) = {}
            /\ WriteOf(trace[t].k) = {}
            /\ \A u \in OpenEvents : trace[u].k <= trace[t].k
            /\ \A b \in Basenames : disk[b] = LastWritten(b)

\* C1 happens: the second input file is mismatched, after the first was written.
MismatchAfterWrittenFile ==
    \E t \in OpenEvents :
        /\ Mismatched(trace[t].data)
        /\ trace[t].k = 2
        /\ WriteOf(1) # {}
        /\ disk[basename(args.input_path[1])] # NoFile

\* C2: when inputs is an empty array or null, the validation raises nothing
\* whatever the number of instructions, inputs becomes a list of as many nulls
\* as there are instructions, and that list is written under `inputs`.
EmptyInputsExpanded ==
    \A t \in OpenEvents :
        LET d == trace[t].data
            k == trace[t].k
        IN  (d.instructions # NoneList /\ (d.inputs = NoneList \/ d.inputs = <<>>)) =>
                /\ ~(pc = "raised" /\ t = Len(trace))
                /\ (k = file_idx /\ pc = "for_pair") =>
                        inputs = Nulls(Len(d.instructions))
                /\ \A w \in WriteOf(k) :
                        trace[w].content.inputs = Nulls(Len(d.instructions))

\* C2 happens: a file with an empty inputs array and instructions was written.
EmptyInputsWritten ==
    \E t \in OpenEvents :
        /\ trace[t].data.inputs = <<>>
        /\ trace[t].data.instructions # NoneList
        /\ Len(trace[t].data.instructions) = MaxInstr
        /\ WriteOf(trace[t].k) # {}

\* The input of unit i of a loaded file: null when inputs was empty or null.
InputOf(d, i) ==
    IF d.inputs = NoneList \/ d.inputs = <<>> THEN None ELSE d.inputs[i]

\* C3: the prompt of the i-th generate call of a file is formatted from
\* (instructions[i], inputs[i]): the prompt_input template when inputs[i] is a
\* non-empty string, the prompt_no_input template only otherwise.
PromptFormattedFromPair ==
    \A t \in GenerateEvents :
        LET d == DataOf(trace[t].k)
            i == trace[t].i
            inp == InputOf(d, i)
        IN  trace[t].call.prompt =
                IF inp # None /\ Len(inp) > 0
                THEN WithInstructionAndInput(prompter.prompt_input, d.instructions[i], inp)
                ELSE WithInstruction(prompter.prompt_no_input, d.instructions[i])

\* C4: every generate call uses the values of the five generation flags.
GenerateUsesFlags ==
    \A t \in GenerateEvents :
        /\ trace[t].call.max_new_tokens = args.max_new_tokens
        /\ trace[t].call.generation_config =
              [temperature |-> args.temperature, top_p |-> args.top_p,
               top_k |-> args.top_k, num_beams |-> args.num_beams]

\* The file Prompter reads for a template name.
ResolvedTemplateFile(name) == IF name = "" THEN "alpaca" ELSE name

NothingDone ==
    /\ trace = <<>>
    /\ \A b \in Basenames : disk[b] = NoFile

\* C7 as stated: when no file exists at prompt_template_path, the run ends
\* with ValueError "Can't read" before any input file is opened, before any
\* generate call and without any output file written.
MissingTemplatePathTerminates ==
    (args.prompt_template_path \notin fs /\ pc # "start") =>
        /\ pc = "raised"
        /\ error = "ValueError: Can't read"
        /\ NothingDone

\* C7 amended: when the file Prompter reads (prompt_template_path, or "alpaca"
\* when the path is empty) does not exist, the run ends with ValueError
\* "Can't read" before any input file is opened, before any generate call and
\* without any output file written.
MissingTemplateFileTerminates ==
    (ResolvedTemplateFile(args.prompt_template_path) \notin fs /\ pc # "start") =>
        /\ pc = "raised"
        /\ error = "ValueError: Can't read"
        /\ NothingDone

\* C7 happens: the template file is missing, and input files were given.
MissingTemplateRaised ==
    /\ pc = "raised"
    /\ args.prompt_template_path = "t.json"
    /\ "t.json" \notin fs
    /\ Len(args.input_path) = MaxFiles

\* C8: an input file whose instructions value is null raises "No instructions
\* provided" whatever inputs is, before any generate call, and no output file
\* is written for it.
NoInstructionsRaises ==
    \A t \in OpenEvents :
        trace[t].data.instructions = NoneList =>
            /\ pc = "raised"
            /\ error = "ValueError: No instructions provided"
            /\ t = Len(trace)
            /\ GenerateOf(trace[t].k) = {}
            /\ WriteOf(trace[t].k) = {}

\* C8 happens: null instructions with a non-empty inputs array.
NoInstructionsWithInputs ==
    \E t \in OpenEvents :
        /\ trace[t].data.instructions = NoneList
        /\ trace[t].data.inputs # NoneList
        /\ Len(trace[t].data.inputs) > 0
        /\ pc = "raised"

\* C9: for a file processed without error there is exactly one generate call
\* per instruction, in array order, the output file is written right after the
\* last of them, outputs has the length of instructions and outputs[i] is the
\* response extracted for instructions[i]; the files are processed in the
\* order of the command line, each written before the next is opened.
SequentialInOrder ==
    /\ \A w \in WriteEvents :
          LET k == trace[w].k
              d == DataOf(k)
              n == Len(d.instructions)
              o == w - n - 1
              c == trace[w].content
          IN  /\ o >= 1
              /\ trace[o].ev = "open" /\ trace[o].k = k
              /\ GenerateOf(k) = (o + 1)..(o + n)
              /\ \A j \in 1..n :
                    /\ trace[o + j].i = j
                    /\ trace[o + j].instruction = d.instructions[j]
                    /\ trace[o + j].call.response.raised = ""
                    /\ c.outputs[j] = trace[o + j].call.response.value
              /\ Len(c.outputs) = n
              /\ c.instructions = d.instructions
              /\ WriteOf(k) = {w}
              /\ trace[w].base = basename(args.input_path[k])
    /\ \A t \in OpenEvents :
          LET k == trace[t].k
          IN  /\ k = Cardinality({u \in OpenEvents : u <= t})
              /\ trace[t].path = args.input_path[k]
              /\ k > 1 => (trace[t - 1].ev = "write" /\ trace[t - 1].k = k - 1)
    /\ pc = "done" => \A k \in 1..Len(args.input_path) : WriteOf(k) # {}

\* C9 happens: a run of MaxFiles files of MaxInstr instructions each is done.
AllFilesDone ==
    /\ pc = "done"
    /\ Len(args.input_path) = MaxFiles
    /\ \A w \in WriteEvents : Len(trace[w].content.outputs) = MaxInstr
    /\ \A k \in 1..MaxFiles : WriteOf(k) # {}

====
